---- MODULE Spec2Model ----
(***************************************************************************)
(* Verification model of the tutorial notebooks of EE403-Capstone:         *)
(*   - detection_and_tracking.ipynb: the detection pipeline                *)
(*     (generate_detection), the reloading pipeline (load_detection) and   *)
(*     binary_frame_preprocessing;                                         *)
(*   - Interfacing_with_Davis_240C_Dataset.ipynb: the events.txt loader    *)
(*     and the 10 ms chunking loop;                                        *)
(*   - metavision_ui_window.ipynb: test_window;                            *)
(*   - the sample download cells of the notebooks.                         *)
(* Each notebook part has its own specification over the shared variables. *)
(***************************************************************************)
EXTENDS Integers, Sequences, FiniteSets, TLC

VARIABLES
    \* ---- detection_and_tracking.ipynb: notebook globals of the pipelines
    NN_accumulation_time, \* object_detector.get_accumulation_time()
    ts,                   \* global ts: timestamp of the latest batch or chunk, 0 before the first
    pc,                   \* position of the running cell or function
    frame_buffer,         \* batches (by timestamp) whose events are accumulated in the tensor
    detections,           \* value returned by generate_detection / load_detection
    process_calls,        \* timestamps at which object_detector.process was called
    frame_start,          \* current_frame_start_ts passed to cdproc.process_events, per batch
    fills,                \* timestamps of the batches that ended with frame_buffer.fill(0)
    dic_ts_eventbbox,     \* detections_csv_loader(offline_detections)
    \* ---- detection_and_tracking.ipynb: one call of binary_frame_preprocessing
    output_array,         \* the ndarray written by the call, indexed [ti, p, y, x]
    prior_array,          \* contents of output_array when the call was made
    reset,                \* argument reset
    downsampling_factor,  \* argument downsampling_factor
    num_tbins,            \* output_array.shape[0]
    total_tbins_delta_t,  \* argument total_tbins_delta_t
    ti,                   \* local ti
    bin_threshold_int,    \* local bin_threshold_int
    written,              \* events processed so far, as <<time bin used, p, y, x>>
    last_t,               \* timestamp of the latest event processed, -1 before the first
    sorted_in_range,      \* the events so far are sorted and within [0, num_tbins * dt)
    \* ---- Interfacing_with_Davis_240C_Dataset.ipynb
    events_file,          \* lines of events.txt read so far, each a sequence of items
    dic_events,           \* dic_events: the records appended so far
    sequence_npy,         \* the file office_zigzag.npy: whether it exists, and its array
    events_np,            \* events_np
    start_idx,            \* start_idx
    list_nb_ev,           \* list_nb_ev
    chunks,               \* event indices (1-based) processed by each loop iteration
    \* ---- metavision_ui_window.ipynb: one call of test_window(img, use_mt)
    img_channels,         \* 1 for a 2-D (grayscale) img, else img.shape[2]
    use_mt,               \* argument use_mt
    img,                  \* overlays present on the input image img (none on the original)
    crt_img,              \* overlays present on crt_img
    last_x,               \* nonlocal last_x
    last_y,               \* nonlocal last_y
    last_mouse_str,       \* nonlocal last_mouse_str
    last_key_str,         \* nonlocal last_key_str
    close_window,         \* nonlocal close_window
    close_flag,           \* the window's close flag, read by w.should_close()
    crt_size,             \* <<crt_width, crt_height>> returned by w.get_size()
    shown,                \* the image handed to w.show / w.show_async last
    prev_shown,           \* the image handed to it the time before
    esc_seen,             \* a RELEASE of KEY_ESCAPE has been dispatched
    log,                  \* loop operations performed since that dispatch
    \* ---- the sample download cells
    disk,                 \* the working directory: contents of each download target
    cell_status,          \* how the latest run of each download cell ended
    runs,                 \* number of cell runs so far
    fetched,              \* targets requested from the network so far
    last_run              \* the latest cell run: the cell, the disk and status before it,
                          \* and the targets it requested from the network

pipeVars == <<NN_accumulation_time, frame_buffer, detections,
              process_calls, frame_start, fills, dic_ts_eventbbox>>

binVars == <<output_array, prior_array, reset, downsampling_factor, num_tbins,
             total_tbins_delta_t, ti, bin_threshold_int, written, last_t,
             sorted_in_range>>

davisVars == <<events_file, dic_events, sequence_npy, events_np, start_idx,
               list_nb_ev, chunks>>

winVars == <<img_channels, use_mt, img, crt_img, last_x, last_y, last_mouse_str,
             last_key_str, close_window, close_flag, crt_size, shown, prev_shown,
             esc_seen, log>>

downloadVars == <<disk, cell_status, runs, fetched, last_run>>

vars == <<pc, ts, pipeVars, binVars, davisVars, winVars, downloadVars>>

\* The variables of a notebook part that is not running.
BinIdle ==
    /\ output_array = <<>>
    /\ prior_array = <<>>
    /\ reset = FALSE
    /\ downsampling_factor = 0
    /\ num_tbins = 0
    /\ total_tbins_delta_t = 0
    /\ ti = 0
    /\ bin_threshold_int = 0
    /\ written = {}
    /\ last_t = -1
    /\ sorted_in_range = TRUE

DavisIdle ==
    /\ events_file = <<>>
    /\ dic_events = <<>>
    /\ sequence_npy = [exists |-> FALSE, data |-> <<>>]
    /\ events_np = <<>>
    /\ start_idx = 0
    /\ list_nb_ev = <<>>
    /\ chunks = <<>>

WinIdle ==
    /\ img_channels = 0
    /\ use_mt = FALSE
    /\ img = {}
    /\ crt_img = {}
    /\ last_x = 0
    /\ last_y = 0
    /\ last_mouse_str = ""
    /\ last_key_str = ""
    /\ close_window = FALSE
    /\ close_flag = FALSE
    /\ crt_size = <<0, 0>>
    /\ shown = {}
    /\ prev_shown = {}
    /\ esc_seen = FALSE
    /\ log = <<>>

DownloadIdle ==
    /\ disk = <<>>
    /\ cell_status = <<>>
    /\ runs = 0
    /\ fetched = {}
    /\ last_run = <<>>

PipeIdle ==
    /\ NN_accumulation_time = 0
    /\ frame_buffer = {}
    /\ detections = {}
    /\ process_calls = {}
    /\ frame_start = <<>>
    /\ fills = {}
    /\ dic_ts_eventbbox = <<>>

(***************************************************************************)
(* Detection pipeline                                                      *)
(***************************************************************************)

\* Batch duration handed to EventsIterator (microseconds).
DELTA_T == 10000

\* Accumulation time the offline detections were computed with.
NN_ACCUMULATION_TIME == 50000

\* Number of batches after which the pipeline loop stops (END_TS / DELTA_T).
MaxBatches == 12

END_TS == MaxBatches * DELTA_T

\* Accumulation times a loaded detector may report.
NNTimes == {10000, 15000, 20000, 30000, 50000}

\* Bounding boxes a detection array may hold.
Boxes == {"car", "pedestrian"}

\* np.empty(0, dtype=EventBbox)
EmptyDetections == {}

\* ((ts-1) // NN_accumulation_time) * NN_accumulation_time
current_frame_start_ts(t, nn) == ((t - 1) \div nn) * nn

\* Faulty variant of network_due: the network is called on every batch.
network_due_every_batch(t, nn) == t % DELTA_T = 0

\* ts % NN_accumulation_time == 0
network_due(t, nn) == t % nn = 0

\* Faulty variant of fill_zero: the input frame is not reset.
fill_skipped(fb) == fb

\* frame_buffer.fill(0)
fill_zero(fb) == {}

\* cdproc.process_events(current_frame_start_ts, ev, frame_buffer): the events of the
\* batch, when it has any, are added to the tensor.
process_events(fb, t, nonempty) == IF nonempty THEN fb \cup {t} ELSE fb

\* generate_detection(ts, ev); net is what object_detector.process returns.
generate_detection(t, nonempty, net) ==
    LET acc == process_events(frame_buffer, t, nonempty)
    IN  /\ frame_start' = Append(frame_start, current_frame_start_ts(t, NN_accumulation_time))
        /\ IF network_due(t, NN_accumulation_time)
           THEN /\ detections' = net
                /\ process_calls' = process_calls \cup {t}
                /\ frame_buffer' = fill_zero(acc)
                /\ fills' = fills \cup {t}
           ELSE /\ detections' = EmptyDetections
                /\ UNCHANGED <<process_calls, fills>>
                /\ frame_buffer' = acc

InitDet ==
    /\ NN_accumulation_time \in NNTimes
    /\ ts = 0
    /\ pc = "run"
    /\ frame_buffer = {}
    /\ detections = EmptyDetections
    /\ process_calls = {}
    /\ frame_start = <<>>
    /\ fills = {}
    /\ dic_ts_eventbbox = <<>>
    /\ BinIdle
    /\ DavisIdle
    /\ WinIdle
    /\ DownloadIdle

\* One iteration of "for ev in mv_it" that reaches generate_detection; keep is the
\* value generate_display returns (False when 'q' is pressed).
DetBatch ==
    /\ pc = "run"
    /\ ts + DELTA_T <= END_TS
    /\ \E nonempty \in BOOLEAN, net \in SUBSET Boxes, keep \in BOOLEAN :
          /\ ts' = ts + DELTA_T
          /\ generate_detection(ts + DELTA_T, nonempty, net)
          /\ pc' = IF keep THEN "run" ELSE "done"
    /\ UNCHANGED <<NN_accumulation_time, dic_ts_eventbbox>>
    /\ UNCHANGED <<binVars, davisVars, winVars, downloadVars>>

\* "for ev in mv_it" finds the iterator exhausted: the loop is left.
IteratorExhausted ==
    /\ pc = "run"
    /\ pc' = "done"
    /\ UNCHANGED <<NN_accumulation_time, ts, frame_buffer, detections, process_calls,
                   frame_start, fills, dic_ts_eventbbox>>
    /\ UNCHANGED <<binVars, davisVars, winVars, downloadVars>>

\* "if END_TS and ts > END_TS: break": the batch is read but not processed.
PastEndTs ==
    /\ pc = "run"
    /\ ts + DELTA_T > END_TS
    /\ ts' = ts + DELTA_T
    /\ pc' = "done"
    /\ UNCHANGED <<NN_accumulation_time, frame_buffer, detections, process_calls,
                   frame_start, fills, dic_ts_eventbbox>>
    /\ UNCHANGED <<binVars, davisVars, winVars, downloadVars>>

NextDet == DetBatch \/ IteratorExhausted \/ PastEndTs

SpecDet == InitDet /\ [][NextDet]_vars

\* Timestamps of the batches produced so far.
BatchesSeen == {k * DELTA_T : k \in 1..(ts \div DELTA_T)}

\* The latest batch was handed to generate_detection / load_detection.
BatchProcessed == ts > 0 /\ ts <= END_TS

\* C1: when NN_accumulation_time is a positive multiple of DELTA_T, the network has been
\* called exactly at the batches with ts % NN_accumulation_time == 0, which are exactly
\* the multiples of NN_accumulation_time up to ts (once per accumulation period), and
\* the value returned on any other batch is the empty detection array.
C1_NetworkOncePerPeriod ==
    (NN_accumulation_time % DELTA_T = 0 /\ ts <= END_TS) =>
        /\ process_calls = {t \in BatchesSeen : t % NN_accumulation_time = 0}
        /\ process_calls = {k * NN_accumulation_time : k \in 1..(ts \div NN_accumulation_time)}
        /\ (BatchProcessed /\ ts % NN_accumulation_time # 0) => detections = EmptyDetections

C1_Witness ==
    /\ NN_accumulation_time = 20000
    /\ ts = 50000
    /\ process_calls = {20000, 40000}
    /\ detections = EmptyDetections
    /\ frame_buffer = {50000}

\* All batches accumulated in frame_buffer belong to one accumulation window.
SingleWindow ==
    \A a, b \in frame_buffer :
        current_frame_start_ts(a, NN_accumulation_time)
            = current_frame_start_ts(b, NN_accumulation_time)

\* C2 as stated, for every positive NN_accumulation_time: frame_buffer holds events of a
\* single accumulation window, is all zero before the first batch and right after every
\* object_detector.process call, and whenever current_frame_start_ts differs from the
\* one of the previous batch, frame_buffer was reset to zero in between.
C2_AnyAccumulationTime ==
    /\ SingleWindow
    /\ (ts = 0 => frame_buffer = {})
    /\ ((BatchProcessed /\ ts \in process_calls) => frame_buffer = {})
    /\ process_calls \subseteq fills
    /\ \A k \in 2..Len(frame_start) :
          frame_start[k] # frame_start[k-1] => ((k - 1) * DELTA_T) \in fills

\* C2 amended: the single-window property of frame_buffer holds when
\* NN_accumulation_time is a positive multiple of DELTA_T.
C2_SingleWindowWhenMultiple ==
    (NN_accumulation_time % DELTA_T = 0) => C2_AnyAccumulationTime

C2_Witness ==
    /\ NN_accumulation_time = 20000
    /\ ts = 30000
    /\ frame_start = <<0, 0, 20000>>
    /\ fills = {20000}
    /\ frame_buffer = {30000}

(***************************************************************************)
(* Pipeline reloading precomputed detections                               *)
(***************************************************************************)

\* Timestamps at which an offline detector with accumulation time
\* NN_ACCUMULATION_TIME writes detections.
DetectionTimes == {k * NN_ACCUMULATION_TIME : k \in 1..(END_TS \div NN_ACCUMULATION_TIME)}

\* load_detection(ts, ev)
load_detection(t) ==
    IF network_due(t, NN_accumulation_time)
    THEN IF t \in DOMAIN dic_ts_eventbbox THEN dic_ts_eventbbox[t] ELSE EmptyDetections
    ELSE EmptyDetections

InitLoad ==
    /\ NN_accumulation_time \in NNTimes
    /\ ts = 0
    /\ pc = "run"
    /\ frame_buffer = {}
    /\ detections = EmptyDetections
    /\ process_calls = {}
    /\ frame_start = <<>>
    /\ fills = {}
    /\ \E K \in SUBSET DetectionTimes :
          dic_ts_eventbbox \in [K -> (SUBSET Boxes) \ {{}}]
    /\ BinIdle
    /\ DavisIdle
    /\ WinIdle
    /\ DownloadIdle

\* One iteration of the reloading loop; keep is what generate_display returns.
LoadBatch ==
    /\ pc = "run"
    /\ ts + DELTA_T <= END_TS
    /\ \E keep \in BOOLEAN :
          /\ ts' = ts + DELTA_T
          /\ detections' = load_detection(ts + DELTA_T)
          /\ pc' = IF keep THEN "run" ELSE "done"
    /\ UNCHANGED <<NN_accumulation_time, frame_buffer, process_calls, frame_start,
                   fills, dic_ts_eventbbox>>
    /\ UNCHANGED <<binVars, davisVars, winVars, downloadVars>>

NextLoad == LoadBatch \/ IteratorExhausted \/ PastEndTs

SpecLoad == InitLoad /\ [][NextLoad]_vars

\* C3: at every batch of the reloading pipeline, load_detection returns
\* dic_ts_eventbbox[ts] when ts is a key of dic_ts_eventbbox and the empty array otherwise.
C3_DetectionDeliveredAtOwnTimestamp ==
    BatchProcessed =>
        detections = IF ts \in DOMAIN dic_ts_eventbbox
                     THEN dic_ts_eventbbox[ts] ELSE EmptyDetections

(***************************************************************************)
(* binary_frame_preprocessing                                              *)
(***************************************************************************)

\* Events processed by one call.
MaxEvents == 2

\* Largest event timestamp.
MaxT == 5

\* Largest value a cell of output_array may hold before the call.
MaxPrior == 2

\* Sensor size: x in 0..SensorWidth-1, y in 0..SensorHeight-1.
SensorWidth == 2

SensorHeight == 1

Polarities == {0, 1}

\* (output_array.shape[0], total_tbins_delta_t) of the calls considered.
TimeSlices == {<<1, 3>>, <<2, 5>>, <<3, 6>>}

\* v >> f on non-negative integers
shift_right(v, f) == v \div (2 ^ f)

\* dt = int(total_tbins_delta_t / num_tbins)
dt == total_tbins_delta_t \div num_tbins

\* Index set of an output_array of shape (n, 2, height >> f, width >> f).
Cells(n, f) ==
    (0..(n - 1)) \X Polarities \X (0..(shift_right(SensorHeight - 1, f)))
                 \X (0..(shift_right(SensorWidth - 1, f)))

\* Contents output_array may have when the call is made.
PriorArrays(C) ==
    {[c \in C |-> 0],
     [c \in C |-> (c[1] + c[2] + c[3] + c[4]) % (MaxPrior + 1)]}

\* Faulty variant of reset_array: the array is left as it is.
reset_none(arr) == arr

\* output_array[...] = 0
reset_array(arr) == [c \in DOMAIN arr |-> 0]

\* Faulty variant of time_bin: the bin is advanced by one.
time_bin_next(t, cur) == cur + 1

\* ti = int(t // dt)
time_bin(t, cur) == t \div dt

\* Faulty variant of set_one: the cell counts the events (a histogram).
set_increment(v) == v + 1

\* output_array[ti, p, y, x] = 1
set_one(v) == 1

InitBin ==
    /\ pc = "call"
    /\ ts = 0
    /\ PipeIdle
    /\ DavisIdle
    /\ WinIdle
    /\ DownloadIdle
    /\ \E slice \in TimeSlices :
          /\ num_tbins = slice[1]
          /\ total_tbins_delta_t = slice[2]
    /\ downsampling_factor \in {0, 1}
    /\ reset \in BOOLEAN
    /\ prior_array \in PriorArrays(Cells(num_tbins, downsampling_factor))
    /\ output_array = prior_array
    /\ ti = 0
    /\ bin_threshold_int = 0
    /\ written = {}
    /\ last_t = -1
    /\ sorted_in_range = TRUE

\* Entry of binary_frame_preprocessing up to the loop: the optional reset and the
\* initialisation of ti and bin_threshold_int.
BinEnter ==
    /\ pc = "call"
    /\ output_array' = IF reset THEN reset_array(output_array) ELSE output_array
    /\ ti' = 0
    /\ bin_threshold_int' = dt
    /\ pc' = "loop"
    /\ UNCHANGED <<prior_array, reset, downsampling_factor, num_tbins,
                   total_tbins_delta_t, written, last_t, sorted_in_range>>
    /\ UNCHANGED <<ts, pipeVars, davisVars, winVars, downloadVars>>

\* One iteration of "for i in range(xypt.shape[0])" on the event (ex, ey, p, t). A time
\* bin past the end of axis 0 (reached only by a timestamp t >= num_tbins * dt) makes the
\* assignment raise IndexError, which ends the call.
BinEvent ==
    /\ pc = "loop"
    /\ Cardinality(written) < MaxEvents
    /\ \E ex \in 0..(SensorWidth - 1), ey \in 0..(SensorHeight - 1),
          p \in Polarities, t \in 0..MaxT :
          LET x == shift_right(ex, downsampling_factor)
              y == shift_right(ey, downsampling_factor)
              advance == t >= bin_threshold_int /\ ti + 1 < num_tbins
              bin == IF advance THEN time_bin(t, ti) ELSE ti
              cell == <<bin, p, y, x>>
          IN  /\ ti' = bin
              /\ bin_threshold_int' = IF advance THEN (bin + 1) * dt ELSE bin_threshold_int
              /\ last_t' = t
              /\ sorted_in_range' = (sorted_in_range /\ last_t <= t /\ t < num_tbins * dt)
              /\ IF cell \in DOMAIN output_array
                 THEN /\ output_array' = [output_array EXCEPT ![cell] = set_one(@)]
                      /\ written' = written \cup {<<bin, p, ey, ex>>}
                      /\ pc' = "loop"
                 ELSE /\ UNCHANGED <<output_array, written>>
                      /\ pc' = "raised"
    /\ UNCHANGED <<prior_array, reset, downsampling_factor, num_tbins, total_tbins_delta_t>>
    /\ UNCHANGED <<ts, pipeVars, davisVars, winVars, downloadVars>>

\* The loop is over: the function returns.
BinReturn ==
    /\ pc = "loop"
    /\ pc' = "done"
    /\ UNCHANGED <<ts, pipeVars, binVars, davisVars, winVars, downloadVars>>

NextBin == BinEnter \/ BinEvent \/ BinReturn

SpecBin == InitBin /\ [][NextBin]_vars

\* Cells of output_array addressed by the events processed so far: time bin used,
\* polarity and downsampled coordinates (y_ev >> f, x_ev >> f).
Addressed ==
    {<<e[1], e[2], e[3] \div (2 ^ downsampling_factor), e[4] \div (2 ^ downsampling_factor)>> :
        e \in written}

\* C4: after a call with reset=True has returned, every entry of output_array is 0 or 1,
\* and an entry [ti, p, y, x] is 1 exactly when some event of polarity p with downsampled
\* coordinates (x, y) was assigned to time bin ti.
C4_BinaryFrame ==
    (pc = "done" /\ reset) =>
        \A c \in DOMAIN output_array :
            /\ output_array[c] \in {0, 1}
            /\ (output_array[c] = 1) <=> (c \in Addressed)

C4_Witness ==
    /\ pc = "done"
    /\ reset
    /\ downsampling_factor = 1
    /\ Cardinality(written) = 2
    /\ Cardinality(Addressed) = 1
    /\ \E e \in written : e[4] = 1
    /\ \E c \in DOMAIN output_array : prior_array[c] # 0 /\ output_array[c] = 0

\* C5: while the events processed are sorted by non-decreasing timestamp and lie in
\* [0, num_tbins * dt), the time bin ti used for the write of the latest event is
\* floor(t / dt).
C5_TimeBinIsFloor ==
    (pc \in {"loop", "done"} /\ sorted_in_range /\ last_t >= 0) =>
        /\ ti = last_t \div dt
        /\ \E e \in written : e[1] = last_t \div dt

C5_Witness ==
    /\ pc = "done"
    /\ sorted_in_range
    /\ num_tbins = 3
    /\ {e[1] : e \in written} = {0, 2}
    /\ last_t = 5

\* C6: with reset=False every entry not addressed by an event keeps the value it had when
\* the call was made and the addressed entries are 1; with reset=True the contents are
\* determined by the events alone, whatever output_array held before.
C6_FrameEffect ==
    (pc # "call") =>
        /\ (~reset) =>
              \A c \in DOMAIN output_array :
                  output_array[c] = IF c \in Addressed THEN 1 ELSE prior_array[c]
        /\ reset =>
              output_array = [c \in Cells(num_tbins, downsampling_factor) |->
                                 IF c \in Addressed THEN 1 ELSE 0]

C6_Witness ==
    /\ pc = "done"
    /\ ~reset
    /\ Cardinality(Addressed) = 2
    /\ \E c \in DOMAIN output_array : prior_array[c] = 2 /\ output_array[c] = 2
    /\ \E c \in DOMAIN output_array : prior_array[c] = 0 /\ output_array[c] = 1

(***************************************************************************)
(* Davis 240C: the chunking loop                                           *)
(***************************************************************************)

\* Chunk duration (microseconds).
delta_t == 10000

\* Events of the sequence handed to the chunking loop.
MaxChunkEvents == 3

\* Event timestamps are the multiples of delta_t / 2 up to MaxTicks of them.
MaxTicks == 6

DavisTimes == {k * (delta_t \div 2) : k \in 0..MaxTicks}

\* An EventCD record.
EventCD(x, y, p, t) == [x |-> x, y |-> y, p |-> p, t |-> t]

\* Arrays of events sorted by non-decreasing timestamp.
SortedEvents ==
    {[i \in 1..Len(tt) |-> EventCD(0, 0, 0, tt[i])] :
        tt \in {f \in UNION {[1..m -> DavisTimes] : m \in 0..MaxChunkEvents} :
                   \A i \in 1..(Len(f) - 1) : f[i] <= f[i + 1]}}

\* Faulty variant of searchsorted: side='right'.
searchsorted_right(a, v) == Cardinality({i \in 1..Len(a) : a[i].t <= v})

\* np.searchsorted(events_np["t"], v): on a sorted array, the number of timestamps
\* strictly below v (the leftmost insertion index).
searchsorted(a, v) == Cardinality({i \in 1..Len(a) : a[i].t < v})

InitChunk ==
    /\ pc = "run"
    /\ ts = 0
    /\ PipeIdle
    /\ BinIdle
    /\ WinIdle
    /\ DownloadIdle
    /\ events_file = <<>>
    /\ dic_events = <<>>
    /\ sequence_npy = [exists |-> FALSE, data |-> <<>>]
    /\ events_np \in SortedEvents
    /\ start_idx = 0
    /\ list_nb_ev = <<>>
    /\ chunks = <<>>

\* One iteration of "while start_idx < len(events_np)"; quit is the 'q' key test.
ChunkStep ==
    /\ pc = "run"
    /\ start_idx < Len(events_np)
    /\ \E quit \in BOOLEAN :
          LET end_idx == searchsorted(events_np, ts + delta_t)
              \* ev = events_np[start_idx:end_idx], as 1-based indices
              ev == {i \in 1..Len(events_np) : start_idx < i /\ i <= end_idx}
          IN  /\ ts' = ts + delta_t
              /\ start_idx' = end_idx
              /\ list_nb_ev' = Append(list_nb_ev, Cardinality(ev))
              /\ chunks' = Append(chunks, ev)
              /\ pc' = IF quit THEN "quit" ELSE "run"
    /\ UNCHANGED <<events_file, dic_events, sequence_npy, events_np>>
    /\ UNCHANGED <<pipeVars, binVars, winVars, downloadVars>>

\* The loop condition fails: every event index has been passed.
ChunkExit ==
    /\ pc = "run"
    /\ ~(start_idx < Len(events_np))
    /\ pc' = "done"
    /\ UNCHANGED <<ts, pipeVars, binVars, davisVars, winVars, downloadVars>>

NextChunk == ChunkStep \/ ChunkExit

SpecChunk == InitChunk /\ [][NextChunk]_vars

RECURSIVE SumSeq(_)
SumSeq(q) == IF q = <<>> THEN 0 ELSE q[1] + SumSeq(Tail(q))

\* C7: the k-th iteration of the chunking loop processes exactly the events with
\* (k-1)*delta_t <= t < k*delta_t and records their number in list_nb_ev; when the
\* loop ends without 'q', the numbers in list_nb_ev add up to len(events_np).
C7_ChunksPartitionEvents ==
    /\ Len(chunks) = Len(list_nb_ev)
    /\ \A k \in 1..Len(chunks) :
          /\ chunks[k] = {i \in 1..Len(events_np) :
                             (k - 1) * delta_t <= events_np[i].t
                                 /\ events_np[i].t < k * delta_t}
          /\ list_nb_ev[k] = Cardinality(chunks[k])
    /\ (pc = "done") => SumSeq(list_nb_ev) = Len(events_np)

C7_Witness ==
    /\ pc = "done"
    /\ Len(events_np) = 3
    /\ list_nb_ev = <<0, 2, 0, 1>>
    /\ events_np[1].t = delta_t

(***************************************************************************)
(* Davis 240C: loading events.txt                                          *)
(***************************************************************************)

\* Lines of events.txt read by one run of the cell.
MaxLines == 3

\* A line is a sequence of items: a run of whitespace (WS) or a token, each the
\* sequence of its characters.
WS == <<" ">>

Digits == <<"0", "1", "2", "3", "4", "5", "6", "7", "8", "9">>

DigitVal(c) == (CHOOSE d \in 1..10 : Digits[d] = c) - 1

\* Timestamps in seconds, as written in the file.
TimeTokens ==
    {<<"0", ".", "0", "0", "0", "0", "0", "0">>,
     <<"0", ".", "0", "0", "0", "2", "4", "9">>,
     <<"0", ".", "0", "1", "0", "0", "0", "0">>}

XTokens == {<<"7">>, <<"2", "3", "9">>}

YTokens == {<<"1", "7", "9">>}

PTokens == {<<"0">>, <<"1">>}

\* A well-formed line "t x y p", once plain and once with surrounding and doubled
\* whitespace; blank and whitespace-only lines; a line with three tokens.
EventLines ==
    {<<t, WS, x, WS, y, WS, p>> : t \in TimeTokens, x \in XTokens, y \in YTokens, p \in PTokens}
        \cup {<<WS, t, WS, WS, x, WS, y, WS, p, WS>> :
                 t \in {<<"0", ".", "0", "0", "0", "2", "4", "9">>},
                 x \in {<<"7">>}, y \in YTokens, p \in {<<"1">>}}

BlankLines == {<<>>, <<WS>>}

ShortLines == {<<t, WS, x, WS, y>> : t \in {<<"0", ".", "0", "1", "0", "0", "0", "0">>},
                                      x \in {<<"7">>}, y \in YTokens}

FileLines == EventLines \cup BlankLines \cup ShortLines

\* line.decode().strip() followed by line.split(): the tokens of the line.
split(line) == SelectSeq(line, LAMBDA it : it # WS)

\* line.decode().strip() == ""
is_blank(line) == split(line) = <<>>

\* int(tok) for a token of decimal digits.
RECURSIVE int_of(_)
int_of(tok) ==
    IF tok = <<>> THEN 0
    ELSE 10 * int_of(SubSeq(tok, 1, Len(tok) - 1)) + DigitVal(tok[Len(tok)])

\* The number of microseconds a token "w.ffffff" (seconds) denotes.
exact_us(tok) ==
    LET dot == CHOOSE i \in 1..Len(tok) : tok[i] = "."
        whole == SubSeq(tok, 1, dot - 1)
        frac == SubSeq(tok, dot + 1, Len(tok))
    IN  int_of(whole) * 1000000 + int_of(frac) * (10 ^ (6 - Len(frac)))

\* Tokens whose double, multiplied by 1e6, falls just below the integer: float("0.000249")
\* is below 0.000249 and float("0.000249") * 1e6 is 248.99999999999997.
ProductBelowInteger == {<<"0", ".", "0", "0", "0", "2", "4", "9">>}

\* int(float(t) * 1e6): int() truncates the double product towards zero.
seconds_to_us(tok) ==
    IF tok \in ProductBelowInteger THEN exact_us(tok) - 1 ELSE exact_us(tok)

\* events_np["x"], events_np["y"]: EventCD holds the coordinates as uint16.
as_uint16(v) == v % 65536

\* The record appended to dic_events for the tokens t, x, y, p of a line.
parse_event(tokens) ==
    EventCD(as_uint16(int_of(tokens[2])), as_uint16(int_of(tokens[3])),
            int_of(tokens[4]), seconds_to_us(tokens[1]))

\* office_zigzag.npy: absent, or the array saved by an earlier run.
NpyFiles ==
    {[exists |-> FALSE, data |-> <<>>],
     [exists |-> TRUE, data |-> <<>>],
     [exists |-> TRUE, data |-> <<EventCD(7, 179, 1, 10000)>>]}

InitParse ==
    /\ pc = "start"
    /\ ts = 0
    /\ PipeIdle
    /\ BinIdle
    /\ WinIdle
    /\ DownloadIdle
    /\ events_file = <<>>
    /\ dic_events = <<>>
    /\ sequence_npy \in NpyFiles
    /\ events_np = <<>>
    /\ start_idx = 0
    /\ list_nb_ev = <<>>
    /\ chunks = <<>>

\* "if not os.path.exists(sequence_npy)": the file is parsed, else the array is loaded.
ParseStart ==
    /\ pc = "start"
    /\ IF ~sequence_npy.exists
       THEN /\ dic_events' = <<>>
            /\ pc' = "read"
            /\ UNCHANGED events_np
       ELSE /\ events_np' = sequence_npy.data
            /\ pc' = "loaded"
            /\ UNCHANGED dic_events
    /\ UNCHANGED <<events_file, sequence_npy, start_idx, list_nb_ev, chunks>>
    /\ UNCHANGED <<ts, pipeVars, binVars, winVars, downloadVars>>

\* One iteration of "for line in tqdm(events_file)"; a line that does not hold four
\* tokens makes the unpacking raise ValueError.
ReadLine ==
    /\ pc = "read"
    /\ Len(events_file) < MaxLines
    /\ \E line \in FileLines :
          /\ events_file' = Append(events_file, line)
          /\ IF is_blank(line)
             THEN UNCHANGED <<dic_events, pc>>
             ELSE IF Len(split(line)) # 4
                  THEN /\ pc' = "raised"
                       /\ UNCHANGED dic_events
                  ELSE /\ dic_events' = Append(dic_events, parse_event(split(line)))
                       /\ UNCHANGED pc
    /\ UNCHANGED <<sequence_npy, events_np, start_idx, list_nb_ev, chunks>>
    /\ UNCHANGED <<ts, pipeVars, binVars, winVars, downloadVars>>

\* End of events.txt: events_np is built from dic_events and saved.
EndOfFile ==
    /\ pc = "read"
    /\ events_np' = dic_events
    /\ sequence_npy' = [exists |-> TRUE, data |-> dic_events]
    /\ pc' = "done"
    /\ UNCHANGED <<events_file, dic_events, start_idx, list_nb_ev, chunks>>
    /\ UNCHANGED <<ts, pipeVars, binVars, winVars, downloadVars>>

NextParse == ParseStart \/ ReadLine \/ EndOfFile

SpecParse == InitParse /\ [][NextParse]_vars

\* The token lists of the non-empty lines read, in file order.
NonEmptyLines ==
    LET RECURSIVE Collect(_)
        Collect(ls) ==
            IF ls = <<>> THEN <<>>
            ELSE IF is_blank(ls[1]) THEN Collect(Tail(ls))
                 ELSE <<split(ls[1])>> \o Collect(Tail(ls))
    IN  Collect(events_file)

\* The parsed array holds one record per non-empty line, in file order, with x, y and p
\* the integers written as the 2nd, 3rd and 4th tokens.
RecordsFollowLines ==
    (pc = "done") =>
        /\ Len(events_np) = Len(NonEmptyLines)
        /\ \A i \in 1..Len(events_np) :
              /\ events_np[i].x = int_of(NonEmptyLines[i][2])
              /\ events_np[i].y = int_of(NonEmptyLines[i][3])
              /\ events_np[i].p = int_of(NonEmptyLines[i][4])

\* C8: parsing events.txt yields one EventCD record per non-empty line, in file order,
\* with x, y, p the 2nd, 3rd and 4th tokens and t the 1st token converted from seconds
\* to microseconds.
C8_OneEventPerLine ==
    /\ RecordsFollowLines
    /\ (pc = "done") =>
          \A i \in 1..Len(events_np) : events_np[i].t = exact_us(NonEmptyLines[i][1])

(***************************************************************************)
(* metavision_ui_window: test_window                                       *)
(***************************************************************************)

\* img.shape[1] and img.shape[0] of the image displayed.
ImgSize == 2

\* Cursor positions reported to cursor_cb, in half pixels: 0, 0.5, ..., MaxCursor / 2.
MaxCursor == 3

\* mv_ui.UIKeyEvent members with their codes; 0 is a code that is no member.
UIKeyEvent == [KEY_ESCAPE |-> 256, KEY_A |-> 65]

KeyCodes == {UIKeyEvent.KEY_ESCAPE, UIKeyEvent.KEY_A, 0}

\* key_to_name
key_to_name == [k \in {UIKeyEvent.KEY_ESCAPE, UIKeyEvent.KEY_A} |->
                   IF k = UIKeyEvent.KEY_ESCAPE THEN "KEY_ESCAPE" ELSE "KEY_A"]

\* mv_ui.UIMouseButton members with their codes; 9 is a code that is no member.
UIMouseButton == [MOUSE_BUTTON_LEFT |-> 0]

ButtonCodes == {UIMouseButton.MOUSE_BUTTON_LEFT, 9}

\* button_to_name
button_to_name == [b \in {UIMouseButton.MOUSE_BUTTON_LEFT} |-> "MOUSE_BUTTON_LEFT"]

\* mv_ui.UIAction
UIAction == {"PRESS", "RELEASE", "REPEAT"}

\* The picture held by the image passed to test_window.
OriginalImage == {<<"picture">>}

\* Sizes w.get_size() may return: the image size, or twice that after a resize.
WindowSizes == {<<ImgSize, ImgSize>>, <<2 * ImgSize, 2 * ImgSize>>}

\* int(x) of a non-negative position given in half pixels.
int_of_position(h) == h \div 2

\* cv2.putText draws nothing for an empty string.
text_overlay(kind, str) == IF str = "" THEN {} ELSE {<<kind, str>>}

\* The circle and the two texts drawn from the callback state and the window size.
overlays(x, y, mouse_str, key_str, size) ==
    {<<"circle", (x * ImgSize) \div size[1], (y * ImgSize) \div size[2]>>}
        \cup text_overlay("mouse", mouse_str) \cup text_overlay("key", key_str)

\* Faulty variant of fresh_copy: the buffer of the previous iteration is drawn on again.
reused_buffer(image, buffer) == buffer

\* crt_img = img.copy() in the display loop: the buffer drawn on is a copy of img,
\* whatever crt_img held.
fresh_copy(image, buffer) == image

\* Faulty variant of escape_released: the window closes on the key press.
escape_pressed(key, action) == action = "PRESS" /\ key = UIKeyEvent.KEY_ESCAPE

\* action == RELEASE and key == KEY_ESCAPE
escape_released(key, action) == action = "RELEASE" /\ key = UIKeyEvent.KEY_ESCAPE

\* The operation op is recorded once a RELEASE of KEY_ESCAPE has been dispatched.
logged(op) == IF esc_seen THEN Append(log, op) ELSE log

InitWin ==
    /\ pc = "setup"
    /\ ts = 0
    /\ PipeIdle
    /\ BinIdle
    /\ DavisIdle
    /\ DownloadIdle
    /\ img_channels \in {1, 3, 4}
    /\ use_mt \in BOOLEAN
    /\ img = OriginalImage
    /\ crt_img = {}
    /\ last_x = 0
    /\ last_y = 0
    /\ last_mouse_str = ""
    /\ last_key_str = ""
    /\ close_window = FALSE
    /\ close_flag = FALSE
    /\ crt_size = <<ImgSize, ImgSize>>
    /\ shown = {}
    /\ prev_shown = {}
    /\ esc_seen = FALSE
    /\ log = <<>>

\* test_window up to the display loop: the first copy, the render mode (an image with
\* neither one nor three channels is refused), the window and the callback variables.
WinSetup ==
    /\ pc = "setup"
    /\ crt_img' = img
    /\ pc' = IF img_channels \in {1, 3} THEN "check" ELSE "rejected"
    /\ UNCHANGED <<img_channels, use_mt, img, last_x, last_y, last_mouse_str, last_key_str,
                   close_window, close_flag, crt_size, shown, prev_shown, esc_seen, log>>
    /\ UNCHANGED <<ts, pipeVars, binVars, davisVars, downloadVars>>

\* "while not w.should_close()" holds: poll_and_dispatch is called.
WinPoll ==
    /\ pc = "check"
    /\ ~close_flag
    /\ pc' = "poll"
    /\ log' = logged("poll")
    /\ UNCHANGED <<img_channels, use_mt, img, crt_img, last_x, last_y, last_mouse_str,
                   last_key_str, close_window, close_flag, crt_size, shown, prev_shown,
                   esc_seen>>
    /\ UNCHANGED <<ts, pipeVars, binVars, davisVars, downloadVars>>

\* w.should_close() returns True: the loop and test_window end.
WinExit ==
    /\ pc = "check"
    /\ close_flag
    /\ pc' = "exit"
    /\ log' = logged("exit")
    /\ UNCHANGED <<img_channels, use_mt, img, crt_img, last_x, last_y, last_mouse_str,
                   last_key_str, close_window, close_flag, crt_size, shown, prev_shown,
                   esc_seen>>
    /\ UNCHANGED <<ts, pipeVars, binVars, davisVars, downloadVars>>

\* poll_and_dispatch runs cursor_cb(x, y).
cursor_cb ==
    /\ pc = "poll"
    /\ \E x \in 0..MaxCursor, y \in 0..MaxCursor :
          /\ last_x' = int_of_position(x)
          /\ last_y' = int_of_position(y)
    /\ UNCHANGED <<pc, img_channels, use_mt, img, crt_img, last_mouse_str, last_key_str,
                   close_window, close_flag, crt_size, shown, prev_shown, esc_seen, log>>
    /\ UNCHANGED <<ts, pipeVars, binVars, davisVars, downloadVars>>

\* poll_and_dispatch runs mouse_cb(button, action, mods).
mouse_cb ==
    /\ pc = "poll"
    /\ \E button \in ButtonCodes, action \in UIAction :
          last_mouse_str' =
              IF action = "RELEASE" /\ button \in DOMAIN button_to_name
              THEN button_to_name[button] ELSE last_mouse_str
    /\ UNCHANGED <<pc, img_channels, use_mt, img, crt_img, last_x, last_y, last_key_str,
                   close_window, close_flag, crt_size, shown, prev_shown, esc_seen, log>>
    /\ UNCHANGED <<ts, pipeVars, binVars, davisVars, downloadVars>>

\* poll_and_dispatch runs keyboard_cb(key, scancode, action, mods).
keyboard_cb ==
    /\ pc = "poll"
    /\ \E key \in KeyCodes, action \in UIAction :
          /\ last_key_str' =
                IF action = "RELEASE" /\ key \in DOMAIN key_to_name
                THEN key_to_name[key] ELSE last_key_str
          /\ close_window' = (close_window \/ escape_released(key, action))
          /\ esc_seen' = (esc_seen \/ (action = "RELEASE" /\ key = UIKeyEvent.KEY_ESCAPE))
    /\ UNCHANGED <<pc, img_channels, use_mt, img, crt_img, last_x, last_y, last_mouse_str,
                   close_flag, crt_size, shown, prev_shown, log>>
    /\ UNCHANGED <<ts, pipeVars, binVars, davisVars, downloadVars>>

\* poll_and_dispatch handles the click on the window's close button.
close_button ==
    /\ pc = "poll"
    /\ ~close_flag
    /\ close_flag' = TRUE
    /\ UNCHANGED <<pc, img_channels, use_mt, img, crt_img, last_x, last_y, last_mouse_str,
                   last_key_str, close_window, crt_size, shown, prev_shown, esc_seen, log>>
    /\ UNCHANGED <<ts, pipeVars, binVars, davisVars, downloadVars>>

\* poll_and_dispatch returns; the window size is read, the overlays are drawn on a copy
\* of img and the result is handed to w.show or w.show_async.
WinShow ==
    /\ pc = "poll"
    /\ \E size \in WindowSizes :
          /\ crt_size' = size
          /\ crt_img' = fresh_copy(img, crt_img)
                           \cup overlays(last_x, last_y, last_mouse_str, last_key_str, size)
    /\ shown' = crt_img'
    /\ prev_shown' = shown
    /\ log' = logged("show")
    /\ pc' = "shown"
    /\ UNCHANGED <<img_channels, use_mt, img, last_x, last_y, last_mouse_str, last_key_str,
                   close_window, close_flag, esc_seen>>
    /\ UNCHANGED <<ts, pipeVars, binVars, davisVars, downloadVars>>

\* "if close_window: w.set_close_flag()", the end of the loop body.
WinEndIteration ==
    /\ pc = "shown"
    /\ IF close_window
       THEN /\ close_flag' = TRUE
            /\ log' = logged("flag")
       ELSE UNCHANGED <<close_flag, log>>
    /\ pc' = "check"
    /\ UNCHANGED <<img_channels, use_mt, img, crt_img, last_x, last_y, last_mouse_str,
                   last_key_str, close_window, crt_size, shown, prev_shown, esc_seen>>
    /\ UNCHANGED <<ts, pipeVars, binVars, davisVars, downloadVars>>

NextWin ==
    \/ WinSetup \/ WinPoll \/ WinExit \/ cursor_cb \/ mouse_cb \/ keyboard_cb
    \/ close_button \/ WinShow \/ WinEndIteration

SpecWin == InitWin /\ [][NextWin]_vars

IsPrefix(a, b) == Len(a) <= Len(b) /\ a = SubSeq(b, 1, Len(a))

\* C9: once a RELEASE of KEY_ESCAPE has been dispatched, close_window is True and stays
\* True, and what the loop does from then on is: show the frame, call set_close_flag,
\* and exit, with no further poll_and_dispatch or show (w.should_close() returning the
\* close flag).
C9_EscapeClosesWindow ==
    esc_seen =>
        /\ close_window
        /\ IsPrefix(log, <<"show", "flag", "exit">>)
        /\ (pc = "check" => close_flag)
        /\ (pc = "exit" => log = <<"show", "flag", "exit">>)

C9_Witness ==
    /\ pc = "exit"
    /\ esc_seen
    /\ log = <<"show", "flag", "exit">>
    /\ last_key_str = "KEY_A"
    /\ <<"key", "KEY_A">> \in shown

\* C10: img keeps the original picture, and the frame shown is the original picture
\* with exactly the overlays of the current callback state: nothing drawn for an
\* earlier frame remains.
C10_FreshCopyEachFrame ==
    /\ img = OriginalImage
    /\ (pc = "shown") =>
          shown = OriginalImage
                     \cup overlays(last_x, last_y, last_mouse_str, last_key_str, crt_size)

C10_Witness ==
    /\ pc = "shown"
    /\ <<"circle", 1, 1>> \in prev_shown
    /\ <<"key", "KEY_A">> \in prev_shown
    /\ shown = OriginalImage \cup {<<"circle", 0, 0>>, <<"key", "KEY_ESCAPE">>}

(***************************************************************************)
(* Sample download cells                                                   *)
(*   Interfacing_with_Davis_240C_Dataset.ipynb: the Davis sequence zip;    *)
(*   the training notebook: sample_dataset.zip and dataset_precomputed;    *)
(*   detection_and_tracking.ipynb: the offline detections text file.       *)
(***************************************************************************)

\* Number of cell runs explored.
MaxRuns == 3

sequence_filename == "office_zigzag.zip"
sample_dataset_zip == "sample_dataset.zip"
dataset_path == "dataset_precomputed"
offline_detections == "driving_sample_detections.txt"

Targets == {sequence_filename, sample_dataset_zip, dataset_path, offline_detections}

\* What the working directory holds under a name: nothing, something that is not the
\* sample (a truncated or foreign file, an incomplete directory), or the sample.
Contents == {"absent", "corrupt", "complete"}

\* What the server does with a request: no response (the request raises before anything
\* is written), a transfer that breaks off (part of the file is written, then the call
\* raises), a transfer that ends normally with a wrong body, the sample.
Responses == {"refused", "broken", "corrupt", "complete"}

DownloadCells == {"davis", "dataset", "detections"}

\* Faulty variant of exists: the guard never finds the target.
never_exists(d, f) == FALSE

\* os.path.exists(f)
exists(d, f) == d[f] # "absent"

\* os.path.isdir(f)
isdir(d, f) == d[f] # "absent"

\* The file written by a transfer.
body(r) == IF r = "complete" THEN "complete" ELSE "corrupt"

\* requests.get(url, stream=True) and the block-wise write into open(f, 'wb').
requests_get(d, f, r) ==
    IF r = "refused"
    THEN [disk |-> d, raised |-> TRUE]
    ELSE [disk |-> [d EXCEPT ![f] = body(r)], raised |-> (r = "broken")]

\* urlretrieve(url, filename=f)
urlretrieve(d, f, r) ==
    IF r = "refused"
    THEN [disk |-> d, raised |-> TRUE]
    ELSE [disk |-> [d EXCEPT ![f] = body(r)], raised |-> (r = "broken")]

ended(raised) == IF raised THEN "raised" ELSE "done"

\* The download cell of the Davis notebook; the final assert holds whenever the cell
\* gets that far.
davis_cell(d, r) ==
    IF ~exists(d, sequence_filename)
    THEN LET dl == requests_get(d, sequence_filename, r)
         IN  [disk |-> dl.disk, requested |-> {sequence_filename},
              status |-> ended(dl.raised)]
    ELSE [disk |-> d, requested |-> {}, status |-> "done"]

\* ZipFile('sample_dataset.zip', 'r').extractall(): the archive of the sample server
\* holds the directory dataset_precomputed; a file that is not the archive raises.
extractall(d) ==
    IF d[sample_dataset_zip] = "complete"
    THEN [disk |-> [d EXCEPT ![dataset_path] = "complete"], raised |-> FALSE]
    ELSE [disk |-> d, raised |-> TRUE]

\* The dataset download cell.
dataset_cell(d, r) ==
    IF ~isdir(d, dataset_path)
    THEN LET need == ~exists(d, sample_dataset_zip)
             dl == IF need THEN urlretrieve(d, sample_dataset_zip, r)
                           ELSE [disk |-> d, raised |-> FALSE]
             ex == extractall(dl.disk)
             req == IF need THEN {sample_dataset_zip} ELSE {}
         IN  IF dl.raised
             THEN [disk |-> dl.disk, requested |-> req, status |-> "raised"]
             ELSE [disk |-> ex.disk, requested |-> req, status |-> ended(ex.raised)]
    ELSE [disk |-> d, requested |-> {}, status |-> "done"]

\* The offline detections cell: the guarded download, then detections_csv_loader,
\* which only reads the file and fails on one that is not the sample.
detections_cell(d, r) ==
    LET need == ~exists(d, offline_detections)
        dl == IF need THEN urlretrieve(d, offline_detections, r)
                      ELSE [disk |-> d, raised |-> FALSE]
    IN  [disk |-> dl.disk,
         requested |-> IF need THEN {offline_detections} ELSE {},
         status |-> ended(dl.raised \/ dl.disk[offline_detections] # "complete")]

InitDownload ==
    /\ pc = "cells"
    /\ ts = 0
    /\ PipeIdle
    /\ BinIdle
    /\ DavisIdle
    /\ WinIdle
    /\ disk \in [Targets -> Contents]
    /\ cell_status = [c \in DownloadCells |-> "never"]
    /\ runs = 0
    /\ fetched = {}
    /\ last_run = [cell |-> "none", disk |-> disk, status |-> "never", requested |-> {}]

\* One run of a download cell, with the outcome res.
RunCell(c, res) ==
    /\ pc = "cells"
    /\ runs < MaxRuns
    /\ disk' = res.disk
    /\ cell_status' = [cell_status EXCEPT ![c] = res.status]
    /\ runs' = runs + 1
    /\ fetched' = fetched \cup res.requested
    /\ last_run' = [cell |-> c, disk |-> disk, status |-> cell_status[c],
                    requested |-> res.requested]
    /\ UNCHANGED <<pc, ts, pipeVars, binVars, davisVars, winVars>>

RunDavisCell == \E r \in Responses : RunCell("davis", davis_cell(disk, r))

RunDatasetCell == \E r \in Responses : RunCell("dataset", dataset_cell(disk, r))

RunDetectionsCell == \E r \in Responses : RunCell("detections", detections_cell(disk, r))

NextDownload == RunDavisCell \/ RunDatasetCell \/ RunDetectionsCell

SpecDownload == InitDownload /\ [][NextDownload]_vars

\* C11: a download cell requests no target that already exists and leaves it as it was
\* (with the dataset directory present, the cell requests nothing at all); and a cell
\* run again after a run of it that went through requests nothing and leaves the
\* working directory as it was.
C11_DownloadsGuarded ==
    last_run.cell # "none" =>
        /\ \A f \in Targets :
              last_run.disk[f] # "absent" =>
                  /\ f \notin last_run.requested
                  /\ disk[f] = last_run.disk[f]
        /\ (last_run.disk[dataset_path] # "absent" /\ last_run.cell = "dataset") =>
              /\ last_run.requested = {}
              /\ disk = last_run.disk
        /\ last_run.status = "done" =>
              /\ last_run.requested = {}
              /\ disk = last_run.disk

C11_Witness ==
    /\ last_run.cell = "dataset"
    /\ last_run.status = "done"
    /\ sample_dataset_zip \in fetched
    /\ last_run.requested = {}
    /\ disk[dataset_path] = "complete"
    /\ disk = last_run.disk

====
